---- MODULE Spec2Model ----
(***************************************************************************)
(* The data-access layer of greenhouse-graphs: GreenhouseApi, the          *)
(* DateLookupCache that chains its fetches on one promise, and the         *)
(* Greenhouse facade that owns five caches.                                *)
(*                                                                         *)
(* Time is counted in clock ticks; moment().format() prints whole seconds, *)
(* so two instants have the same canonical form exactly when they lie in   *)
(* the same second.  One run of fetchNow reads the clock once: the two     *)
(* moment() calls of one synchronous run are taken at the same tick.       *)
(***************************************************************************)
EXTENDS Integers, Sequences, FiniteSets

VARIABLES clock, heap, series, nfetch, nreset, direct

vars == <<clock, heap, series, nfetch, nreset, direct>>

\* ---- bounds -------------------------------------------------------------
MaxClock == 4
MaxTime == 1
MaxOps == 3
MaxCalls == 4
MaxItems == 2
TicksPerSecond == 2

DayTicks == 86400 * TicksPerSecond

\* ---- constants of the program -------------------------------------------
StatTypes == {"temperature", "humidity", "water", "fan"}

LogLevel == {"debug", "info", "warn", "error"}

DEFAULT_LOG_LEVEL == "info"

DEFAULT_LOG_LOOKUP_DAYS == 7

\* the levels resetLogHistory is called with
ResetLevels == {"debug"}

Series == StatTypes \cup {"logs"}

\* the accessors that are called: the log series and two of the four stat
\* series; fan() and water() are the same one-line delegation as humidity()
Polled == {"logs", "temperature", "humidity"}

LookupDays == {0, 1}

Errors == {"NetworkError"}

\* the bodies the server answers with: n items, newest first (item n is the
\* newest), for n up to MaxItems
ItemLists == {[k \in 1..n |-> n + 1 - k] : n \in 0..MaxItems}

\* ---- helpers ------------------------------------------------------------

\* mutant: the canonical form keeps the full precision of the instant
FormatExact(t) == t

\* moment(x).format(): ISO-8601 with whole seconds
Format(t) == t \div TicksPerSecond

\* mutant: the lookup window is laid after now instead of before it
SubtractForward(t, days) == t + days * DayTicks

\* moment().subtract(days, 'days')
Subtract(t, days) == t - days * DayTicks

\* Array.prototype.reverse
Reverse(s) == [k \in 1..Len(s) |-> s[Len(s) + 1 - k]]

\* Array.prototype.concat
Concat(a, b) == a \o b

IsPrefix(a, b) == Len(a) <= Len(b) /\ SubSeq(b, 1, Len(a)) = a

Last(s) == s[Len(s)]

Settled(p) == p.state \in {"fulfilled", "rejected"}

\* a promise returned by fetch(): then-callback not yet run
NewPromise(behind) ==
  [state |-> "queued", behind |-> behind, window |-> <<>>,
   response |-> <<>>, value |-> <<>>, error |-> ""]

\* new DateLookupCache(initialTimeAgoDays, getter); currentFetch starts as an
\* already resolved promise, which is the empty chain here
DateLookupCache(initialTimeAgoDays, getter) ==
  [getter |-> getter,
   initialTimeAgoDays |-> initialTimeAgoDays,
   lastEndTime |-> <<>>,
   cache |-> <<>>,
   chain |-> <<>>]

\* Greenhouse._statCache
StatCache(lookupDays, stat) ==
  DateLookupCache(lookupDays, [api |-> "history", arg |-> stat])

\* the getter closure of resetLogHistory
LogCache(logLevel, lookupDays) ==
  DateLookupCache(lookupDays, [api |-> "logs", arg |-> logLevel])

\* state of this.currentFetch: the last promise of the chain
CurrentFetchSettled(c) == c.chain = <<>> \/ Settled(Last(c.chain))

\* index of the first promise whose then-callback has not run, 0 if none
NextQueued(c) ==
  IF \E k \in DOMAIN c.chain : c.chain[k].state = "queued"
  THEN CHOOSE k \in DOMAIN c.chain :
         /\ c.chain[k].state = "queued"
         /\ \A j \in 1..(k - 1) : c.chain[j].state # "queued"
  ELSE 0

\* mutant: the callback does not wait for the promise it was chained on
PredecessorFulfilledNoWait(c, k) == TRUE

\* mutant: one chain for all caches, a callback also waits for the getter
\* calls of the other instances
PredecessorFulfilledShared(c, k) ==
  /\ IF k = 1 THEN TRUE ELSE c.chain[k - 1].state = "fulfilled"
  /\ \A j \in DOMAIN heap : \A m \in DOMAIN heap[j].chain :
       heap[j].chain[m].state # "fetching"

\* mutant: the callback runs as soon as the fetch before it has started
PredecessorFulfilledOrStarted(c, k) ==
  IF k = 1 THEN TRUE ELSE c.chain[k - 1].state # "queued"

\* mutant: the callback also runs when the promise it was chained on rejects
PredecessorFulfilledOrRejected(c, k) ==
  IF k = 1 THEN TRUE ELSE c.chain[k - 1].state \in {"fulfilled", "rejected"}

\* mutant: only the callback chained on the constructor's promise ever runs
PredecessorFulfilledFirstOnly(c, k) == k = 1

\* currentFetch.then(cb): cb runs once the promise it was chained on fulfils
PredecessorFulfilled(c, k) ==
  IF k = 1 THEN TRUE ELSE c.chain[k - 1].state = "fulfilled"

\* mutant: a predecessor that is still pending is taken for a rejected one
PredecessorRejectedOrPending(c, k) ==
  IF k = 1 THEN FALSE ELSE c.chain[k - 1].state \notin {"fulfilled", "queued"}

PredecessorRejected(c, k) ==
  IF k = 1 THEN FALSE ELSE c.chain[k - 1].state = "rejected"

\* mutant: a fetch that has nothing to ask for clears the boundary
NewLastEndTimeUnlessNoop(start, end) ==
  IF start \div TicksPerSecond = end \div TicksPerSecond THEN <<>> ELSE <<end>>

\* mutant: the boundary is left at the start of the window
NewLastEndTimeStart(start, end) == <<start>>

\* fetchNow line 261: this.lastEndTime = end
NewLastEndTime(start, end) == <<end>>

\* mutant: the start is always computed from the lookup window
StartOfIgnoringBoundary(c, now) == Subtract(now, c.initialTimeAgoDays)

\* fetchNow line 259
StartOf(c, now) ==
  IF c.lastEndTime = <<>> THEN Subtract(now, c.initialTimeAgoDays)
  ELSE c.lastEndTime[1]

\* mutant: the items are returned in the order received
GetterDataAsReceived(items) == items

\* GreenhouseApi.history / GreenhouseApi.logs: the value the getter resolves with
GetterData(items) == Reverse(items)

\* ---- initial state: new Greenhouse(options) ------------------------------
SeriesOrder == <<"logs", "temperature", "humidity", "fan", "water">>

Init ==
  /\ clock = 0
  /\ nfetch = 0
  /\ nreset = 0
  /\ direct = <<>>
  /\ \E statDays \in LookupDays :
       heap = <<LogCache(DEFAULT_LOG_LEVEL, DEFAULT_LOG_LOOKUP_DAYS),
                StatCache(statDays, "temperature"),
                StatCache(statDays, "humidity"),
                StatCache(statDays, "fan"),
                StatCache(statDays, "water")>>
  /\ series = [s \in Series |->
                 CHOOSE k \in 1..5 : SeriesOrder[k] = s]

\* ---- actions -------------------------------------------------------------

\* the wall clock advances
Tick ==
  /\ clock' = clock + 1
  /\ UNCHANGED <<heap, series, nfetch, nreset, direct>>

\* Greenhouse.logs/humidity/temperature/fan/water -> DateLookupCache.fetch
Fetch(s) ==
  /\ nfetch' = nfetch + 1
  /\ LET i == series[s]
         c == heap[i]
     IN heap' = [heap EXCEPT ![i].chain =
                   Append(c.chain, NewPromise(~CurrentFetchSettled(c)))]
  /\ UNCHANGED <<clock, series, nreset, direct>>

\* the then-callback of fetch(): fetchNow up to the getter call
FetchNow(i) ==
  LET c == heap[i]
      k == NextQueued(c)
  IN /\ k # 0
     /\ PredecessorFulfilled(c, k)
     /\ LET start == StartOf(c, clock)
            end == clock
        IN heap' = [heap EXCEPT
             ![i].lastEndTime = NewLastEndTime(start, end),
             ![i].chain[k] =
               IF Format(start) = Format(end)
               THEN [@ EXCEPT !.state = "fulfilled", !.window = <<start, end>>,
                              !.value = c.cache]
               ELSE [@ EXCEPT !.state = "fetching", !.window = <<start, end>>]]
     /\ UNCHANGED <<clock, series, nfetch, nreset, direct>>

\* fetch(): then() without a rejection handler passes the rejection on
PassRejection(i) ==
  LET c == heap[i]
      k == NextQueued(c)
  IN /\ k # 0
     /\ PredecessorRejected(c, k)
     /\ heap' = [heap EXCEPT ![i].chain[k] =
                   [@ EXCEPT !.state = "rejected", !.error = c.chain[k - 1].error]]
     /\ UNCHANGED <<clock, series, nfetch, nreset, direct>>

\* mutant: the error of the getter is replaced by a generic one
GetterErrorGeneric(r) == "Error"

\* what the getter promise settles with when it rejects: the transport's
\* error, or the TypeError of items.forEach on a body without items
GetterError(r) ==
  IF r.kind = "error" THEN r.error
  ELSE IF r.kind = "noitems" THEN "TypeError"
  ELSE ""

\* mutant: the new data is put in front of the cached records
SavedInFront(cache, data) == Concat(data, cache)

\* fetchNow's then-callback: save the new data to the cache
Saved(cache, data) == Concat(cache, data)

\* mutant: the data is saved to the cache the facade holds for the series
\* now, not to the cache the fetch belongs to
GetterSettlesIntoCurrent(i, k, r) ==
  LET c == heap[i]
      p == c.chain[k]
      j == IF c.getter.api = "logs" THEN series["logs"] ELSE series[c.getter.arg]
  IN /\ p.state = "fetching"
     /\ IF r.kind = "items"
        THEN LET cache == Saved(heap[j].cache, GetterData(r.items))
             IN heap' = [heap EXCEPT
                  ![j].cache = cache,
                  ![i].chain[k] = [@ EXCEPT !.state = "fulfilled", !.response = <<r>>,
                                            !.value = cache]]
        ELSE heap' = [heap EXCEPT ![i].chain[k] =
                  [@ EXCEPT !.state = "rejected", !.response = <<r>>,
                            !.error = GetterError(r)]]
     /\ UNCHANGED <<clock, series, nfetch, nreset, direct>>

\* mutant: the fetch resolves with the new records only
FetchNowValueNewOnly(cache, data) == data

\* fetchNow's then-callback, line 275: return this.cache (cache is the cache
\* after the save)
FetchNowValue(cache, data) == cache

\* the getter promise settles with transport outcome r and the callbacks
\* chained on it run: history/logs reverse the items, fetchNow saves them
GetterSettles(i, k, r) ==
  LET c == heap[i]
      p == c.chain[k]
  IN /\ p.state = "fetching"
     /\ IF r.kind = "items"
        THEN LET cache == Saved(c.cache, GetterData(r.items))
             IN heap' = [heap EXCEPT
                  ![i].cache = cache,
                  ![i].chain[k] = [@ EXCEPT !.state = "fulfilled", !.response = <<r>>,
                                            !.value = FetchNowValue(cache, GetterData(r.items))]]
        ELSE heap' = [heap EXCEPT ![i].chain[k] =
                  [@ EXCEPT !.state = "rejected", !.response = <<r>>,
                            !.error = GetterError(r)]]
     /\ UNCHANGED <<clock, series, nfetch, nreset, direct>>

\* axios.get resolves with a body that has the items array
Respond(i, k, items) ==
  GetterSettles(i, k, [kind |-> "items", items |-> items, error |-> ""])

\* axios.get resolves with a body without items
RespondMalformed(i, k) ==
  GetterSettles(i, k, [kind |-> "noitems", items |-> <<>>, error |-> ""])

\* axios.get rejects
Fail(i, k, err) ==
  GetterSettles(i, k, [kind |-> "error", items |-> <<>>, error |-> err])

\* Greenhouse.resetLogHistory
ResetLogHistory(logLevel, lookupDays) ==
  /\ nreset' = nreset + 1
  /\ heap' = Append(heap, LogCache(logLevel, lookupDays))
  /\ series' = [series EXCEPT !["logs"] = Len(heap) + 1]
  /\ UNCHANGED <<clock, nfetch, direct>>

\* mutant: resetting the stats also replaces the logs cache
ResetStatHistoryAndLogs(lookupDays) ==
  /\ nreset' = nreset + 1
  /\ heap' = heap \o <<StatCache(lookupDays, "temperature"),
                       StatCache(lookupDays, "humidity"),
                       StatCache(lookupDays, "fan"),
                       StatCache(lookupDays, "water"),
                       LogCache(DEFAULT_LOG_LEVEL, lookupDays)>>
  /\ series' = [s \in Series |->
                  Len(heap) + (CHOOSE n \in 1..5 :
                     <<"temperature", "humidity", "fan", "water", "logs">>[n] = s)]
  /\ UNCHANGED <<clock, nfetch, direct>>

\* Greenhouse.resetStatHistory
ResetStatHistory(lookupDays) ==
  /\ nreset' = nreset + 1
  /\ heap' = heap \o <<StatCache(lookupDays, "temperature"),
                       StatCache(lookupDays, "humidity"),
                       StatCache(lookupDays, "fan"),
                       StatCache(lookupDays, "water")>>
  /\ series' = [series EXCEPT !["temperature"] = Len(heap) + 1,
                              !["humidity"] = Len(heap) + 2,
                              !["fan"] = Len(heap) + 3,
                              !["water"] = Len(heap) + 4]
  /\ UNCHANGED <<clock, nfetch, direct>>

Next ==
  \/ clock < MaxTime /\ Tick
  \/ \E s \in Polled : nfetch + nreset < MaxOps /\ Fetch(s)
  \/ \E i \in DOMAIN heap : FetchNow(i)
  \/ \E i \in DOMAIN heap : PassRejection(i)
  \/ \E i \in DOMAIN heap : \E k \in DOMAIN heap[i].chain :
       \E items \in ItemLists : Respond(i, k, items)
  \/ \E i \in DOMAIN heap : \E k \in DOMAIN heap[i].chain : RespondMalformed(i, k)
  \/ \E i \in DOMAIN heap : \E k \in DOMAIN heap[i].chain :
       \E err \in Errors : Fail(i, k, err)
  \/ \E logLevel \in ResetLevels, lookupDays \in LookupDays :
       nfetch + nreset < MaxOps /\ ResetLogHistory(logLevel, lookupDays)
  \/ \E lookupDays \in LookupDays :
       nfetch + nreset < MaxOps /\ ResetStatHistory(lookupDays)

\* the facade: the polled accessors and both resets
Spec == Init /\ [][Next]_vars

NextSeries ==
  \/ clock < MaxClock /\ Tick
  \/ nfetch < MaxCalls /\ Fetch("temperature")
  \/ \E i \in DOMAIN heap : FetchNow(i)
  \/ \E i \in DOMAIN heap : PassRejection(i)
  \/ \E i \in DOMAIN heap : \E k \in DOMAIN heap[i].chain :
       \E items \in ItemLists : Respond(i, k, items)
  \/ \E i \in DOMAIN heap : \E k \in DOMAIN heap[i].chain : RespondMalformed(i, k)
  \/ \E i \in DOMAIN heap : \E k \in DOMAIN heap[i].chain :
       \E err \in Errors : Fail(i, k, err)

\* one series driven the way the chart component drives it: repeated
\* temperature() calls that do not wait for each other, and no reset
SpecSeries == Init /\ [][NextSeries]_vars

\* ---- calls that bypass the caches -------------------------------------------
\* direct holds the latest call made on the API client outside a cache: by
\* Greenhouse.status / Greenhouse.latest, or on an exported GreenhouseApi
\* by its user.  One such call is followed at a time.

\* bodies with items in any order
AllItemLists == UNION {[1..n -> 1..MaxItems] : n \in 0..MaxItems}

\* the stats and levels the client is called with directly
ApiStats == {"temperature", "fan"}

ApiLevels == {"info", "error"}

CanCall == IF direct = <<>> THEN TRUE ELSE Settled(direct[1])

\* axios.get(url) has been called; url holds the canonical forms of the dates
NewCall(op, arg, url) ==
  [op |-> op, arg |-> arg, url |-> url, state |-> "pending",
   body |-> <<>>, value |-> <<>>, error |-> ""]

\* GreenhouseApi.status
ApiStatus ==
  /\ CanCall
  /\ direct' = <<NewCall("status", "", <<>>)>>
  /\ UNCHANGED <<clock, heap, series, nfetch, nreset>>

\* GreenhouseApi.latest
ApiLatest(stat) ==
  /\ CanCall
  /\ direct' = <<NewCall("latest", stat, <<>>)>>
  /\ UNCHANGED <<clock, heap, series, nfetch, nreset>>

\* GreenhouseApi.logs up to axios.get
ApiLogs(logLevel, start, end) ==
  /\ CanCall
  /\ direct' = <<NewCall("logs", logLevel, <<Format(start), Format(end)>>)>>
  /\ UNCHANGED <<clock, heap, series, nfetch, nreset>>

\* GreenhouseApi.history up to axios.get
ApiHistory(stat, start, end) ==
  /\ CanCall
  /\ direct' = <<NewCall("history", stat, <<Format(start), Format(end)>>)>>
  /\ UNCHANGED <<clock, heap, series, nfetch, nreset>>

\* Greenhouse.status
Status == ApiStatus

\* mutant: latest also starts a fetch on the cache of the stat
LatestAndFetch(stat) ==
  /\ CanCall
  /\ direct' = <<NewCall("latest", stat, <<>>)>>
  /\ heap' = [heap EXCEPT ![series[stat]].chain =
                Append(@, NewPromise(~CurrentFetchSettled(heap[series[stat]])))]
  /\ UNCHANGED <<clock, series, nfetch, nreset>>

\* Greenhouse.latest
Latest(stat) == ApiLatest(stat)

\* the then-callbacks of the client: status and latest return response.data
\* as it is, logs and history return the items reversed
ApiValue(op, r) ==
  IF op \in {"logs", "history"} THEN GetterData(r.items) ELSE r.items

\* the axios promise of the direct call settles with outcome r
ApiSettles(r) ==
  /\ direct # <<>>
  /\ direct[1].state = "pending"
  /\ r.kind = "noitems" => direct[1].op \in {"logs", "history"}
  /\ direct' =
       IF r.kind = "items"
       THEN <<[direct[1] EXCEPT !.state = "fulfilled", !.body = <<r>>,
                                !.value = ApiValue(direct[1].op, r)]>>
       ELSE <<[direct[1] EXCEPT !.state = "rejected", !.body = <<r>>,
                                !.error = GetterError(r)]>>
  /\ UNCHANGED <<clock, heap, series, nfetch, nreset>>

ApiRespond(items) ==
  ApiSettles([kind |-> "items", items |-> items, error |-> ""])

ApiRespondMalformed ==
  ApiSettles([kind |-> "noitems", items |-> <<>>, error |-> ""])

ApiFail(err) ==
  ApiSettles([kind |-> "error", items |-> <<>>, error |-> err])

NextApi ==
  \/ clock < MaxTime /\ Tick
  \/ \E stat \in ApiStats, days \in LookupDays :
       ApiHistory(stat, Subtract(clock, days), clock)
  \/ \E logLevel \in ApiLevels, days \in LookupDays :
       ApiLogs(logLevel, Subtract(clock, days), clock)
  \/ \E items \in AllItemLists : ApiRespond(items)
  \/ ApiRespondMalformed
  \/ \E err \in Errors : ApiFail(err)

\* the API client used on its own, with bodies whose items come in any order
SpecApi == Init /\ [][NextApi]_vars

NextDelegates ==
  \/ clock < MaxTime /\ Tick
  \/ \E s \in {"logs", "temperature"} : nfetch < MaxOps /\ Fetch(s)
  \/ \E i \in DOMAIN heap : FetchNow(i)
  \/ \E i \in DOMAIN heap : \E k \in DOMAIN heap[i].chain :
       \E items \in ItemLists : Respond(i, k, items)
  \/ Status
  \/ \E stat \in StatTypes : Latest(stat)
  \/ \E items \in ItemLists : ApiRespond(items)
  \/ \E err \in Errors : ApiFail(err)

\* the uncached delegates of the facade next to cached fetches
SpecDelegates == Init /\ [][NextDelegates]_vars

NextProgress ==
  \/ clock < MaxClock /\ Tick
  \/ nfetch < MaxOps /\ Fetch("temperature")
  \/ \E i \in DOMAIN heap : FetchNow(i)
  \/ \E i \in DOMAIN heap : \E k \in DOMAIN heap[i].chain :
       \E items \in ItemLists : Respond(i, k, items)

\* a server that answers every request with items: the event loop runs every
\* then-callback that is ready (weak fairness of FetchNow), and every getter
\* call is eventually answered (weak fairness of Respond)
SpecProgress ==
  /\ Init
  /\ [][NextProgress]_vars
  /\ WF_vars(\E i \in DOMAIN heap : FetchNow(i))
  /\ WF_vars(\E i \in DOMAIN heap : \E k \in DOMAIN heap[i].chain :
               \E items \in ItemLists : Respond(i, k, items))

TypeOK ==
  /\ clock \in 0..MaxClock
  /\ nfetch \in 0..(MaxOps + MaxCalls)
  /\ \A s \in Series : series[s] \in DOMAIN heap
\* ---- vocabulary of the properties -----------------------------------------

\* fetchNow has run for this promise
Executed(p) == p.window # <<>>

\* the getter was called for this promise
GetterCalled(p) == p.state = "fetching" \/ p.response # <<>>

\* two instants with the same canonical (whole-second) form
SameSecond(a, b) == a \div TicksPerSecond = b \div TicksPerSecond

Fetching(c) == {k \in DOMAIN c.chain : c.chain[k].state = "fetching"}

\* ---- C1 -------------------------------------------------------------------
\* C1: single-flight.  In every reachable state each DateLookupCache has at
\* most one outstanding getter call, and while a call is outstanding every
\* fetch issued after it is still queued: not rejected, not run concurrently.
C1_SingleFlight ==
  \A i \in DOMAIN heap :
    LET c == heap[i]
    IN /\ Cardinality(Fetching(c)) <= 1
       /\ \A k \in Fetching(c) :
            \A j \in (k + 1)..Len(c.chain) : c.chain[j].state = "queued"

\* a fetch was issued while another was outstanding, and it waits behind it
C1_Witness ==
  \E i \in DOMAIN heap :
    LET c == heap[i]
    IN /\ Len(c.chain) >= 2
       /\ c.chain[1].state = "fetching"
       /\ c.chain[2].state = "queued"
       /\ c.chain[2].behind

\* ---- C2 -------------------------------------------------------------------
\* C2: a failed window is skipped and the chain continues.  When the getter
\* rejected for a fetch with window (start, end), the next fetch of the same
\* instance, once its then-callback has been dealt with, has run fetchNow
\* with start equal to the failed fetch's end.
C2_ChainContinuesAfterFailure ==
  \A i \in DOMAIN heap :
    LET c == heap[i]
    IN \A k \in DOMAIN c.chain :
         ( /\ k + 1 \in DOMAIN c.chain
           /\ c.chain[k].state = "rejected"
           /\ Executed(c.chain[k])
           /\ c.chain[k + 1].state # "queued" )
         => ( /\ Executed(c.chain[k + 1])
              /\ c.chain[k + 1].window[1] = c.chain[k].window[2] )

\* ---- C3 -------------------------------------------------------------------
\* C3: serialization.  A fetch that is not the first of its instance runs
\* fetchNow only after the fetch issued before it has settled, and its start
\* is the end that fetch recorded.
C3_Serialization ==
  \A i \in DOMAIN heap :
    LET c == heap[i]
    IN \A k \in DOMAIN c.chain :
         (k > 1 /\ Executed(c.chain[k]))
         => ( /\ Settled(c.chain[k - 1])
              /\ Executed(c.chain[k - 1])
              /\ c.chain[k].window[1] = c.chain[k - 1].window[2] )

\* two fetches issued back to back; both called the getter, one after the other
C3_Witness ==
  \E i \in DOMAIN heap :
    LET c == heap[i]
    IN /\ Len(c.chain) >= 2
       /\ c.chain[2].behind
       /\ GetterCalled(c.chain[1])
       /\ GetterCalled(c.chain[2])
       /\ c.chain[2].window[1] = c.chain[1].window[2]

\* ---- C4 -------------------------------------------------------------------
\* C4: FIFO.  In every reachable state, a fetch that has settled or has run
\* fetchNow has only settled fetches before it in issue order, so promises
\* settle and fetches run in the order the calls were issued.
C4_Fifo ==
  \A i \in DOMAIN heap :
    LET c == heap[i]
    IN \A k \in DOMAIN c.chain : \A j \in 1..(k - 1) :
         (Settled(c.chain[k]) \/ Executed(c.chain[k])) => Settled(c.chain[j])

\* three fetches issued before the first ran, all settled
C4_Witness ==
  \E i \in DOMAIN heap :
    LET c == heap[i]
    IN /\ Len(c.chain) >= 3
       /\ c.chain[2].behind
       /\ c.chain[3].behind
       /\ \A k \in 1..3 : Settled(c.chain[k])

\* ---- C5 -------------------------------------------------------------------
\* C5: getter failure.  In the step in which an outstanding getter call
\* rejects, the fetch's promise rejects with the getter's error (the
\* transport's error, or the TypeError raised on a body without items), the
\* cache is what it was, and lastEndTime is the end the fetch attempted.
C5_GetterFailure ==
  [][\A i \in DOMAIN heap : \A k \in DOMAIN heap[i].chain :
       (heap[i].chain[k].state = "fetching" /\ heap'[i].chain[k].state = "rejected")
       => LET q == heap'[i].chain[k]
          IN /\ q.response # <<>>
             /\ q.response[1].kind \in {"error", "noitems"}
             /\ q.response[1].kind = "error" => q.error = q.response[1].error
             /\ q.response[1].kind = "noitems" => q.error = "TypeError"
             /\ q.error # ""
             /\ heap'[i].cache = heap[i].cache
             /\ heap'[i].lastEndTime = <<heap[i].chain[k].window[2]>>]_vars

\* a fetch failed in the getter after an earlier fetch had filled the cache
C5_Witness ==
  \E i \in DOMAIN heap :
    LET c == heap[i]
    IN /\ Len(c.chain) >= 2
       /\ c.cache # <<>>
       /\ c.chain[2].state = "rejected"
       /\ c.chain[2].response # <<>>
       /\ c.chain[2].error \in Errors
       /\ c.lastEndTime = <<c.chain[2].window[2]>>
       /\ c.chain[2].window[2] > c.chain[2].window[1]
\* ---- C6 -------------------------------------------------------------------
\* C6: append-only.  In every step the cache of every instance before the
\* step is a prefix of its cache after the step, so the cache of any earlier
\* state is a prefix of the cache of any later state.
C6_AppendOnly ==
  [][\A i \in DOMAIN heap : IsPrefix(heap[i].cache, heap'[i].cache)]_vars

\* two successful fetches each added records, with a fetch that asked for
\* nothing between them
C6_Witness ==
  \E i \in DOMAIN heap :
    LET c == heap[i]
    IN /\ Len(c.chain) >= 3
       /\ c.chain[1].state = "fulfilled" /\ c.chain[1].response # <<>>
       /\ c.chain[1].value # <<>>
       /\ c.chain[2].state = "fulfilled" /\ c.chain[2].response = <<>>
       /\ c.chain[3].state = "fulfilled" /\ c.chain[3].response # <<>>
       /\ Len(c.cache) > Len(c.chain[1].value)

\* ---- C7 -------------------------------------------------------------------
\* C7: boundary monotonicity.  With a clock that only advances, in every
\* step an instance's lastEndTime that is set stays set and does not
\* decrease.
C7_BoundaryMonotone ==
  [][\A i \in DOMAIN heap :
       heap[i].lastEndTime # <<>>
       => ( /\ heap'[i].lastEndTime # <<>>
            /\ heap'[i].lastEndTime[1] >= heap[i].lastEndTime[1] )]_vars

\* the boundary moved forward over a successful, a no-op and a failed fetch
C7_Witness ==
  \E i \in DOMAIN heap :
    LET c == heap[i]
    IN /\ Len(c.chain) >= 3
       /\ c.chain[1].state = "fulfilled" /\ c.chain[1].response # <<>>
       /\ c.chain[2].state = "fulfilled" /\ c.chain[2].response = <<>>
       /\ c.chain[3].state = "rejected" /\ c.chain[3].response # <<>>
       /\ c.chain[1].window[2] < c.chain[2].window[2]
       /\ c.chain[2].window[2] < c.chain[3].window[2]
       /\ c.lastEndTime = <<c.chain[3].window[2]>>

\* ---- C8 -------------------------------------------------------------------
\* C8: no-op boundary.  In the step in which fetchNow runs and computes a
\* start in the same second as its end, the fetch is fulfilled at once with
\* the cache as it was, no getter call is made and the cache does not change.
C8_NoopBoundary ==
  [][\A i \in DOMAIN heap : \A k \in DOMAIN heap[i].chain :
       ( /\ ~Executed(heap[i].chain[k])
         /\ Executed(heap'[i].chain[k])
         /\ SameSecond(heap'[i].chain[k].window[1], heap'[i].chain[k].window[2]) )
       => ( /\ heap'[i].chain[k].state = "fulfilled"
            /\ heap'[i].chain[k].response = <<>>
            /\ heap'[i].chain[k].value = heap[i].cache
            /\ heap'[i].cache = heap[i].cache )]_vars

\* a second fetch ran one tick after the first but within the same second and
\* resolved with the records the first had cached
C8_Witness ==
  \E i \in DOMAIN heap :
    LET c == heap[i]
    IN /\ Len(c.chain) >= 2
       /\ c.chain[1].state = "fulfilled" /\ c.chain[1].response # <<>>
       /\ c.chain[2].state = "fulfilled" /\ c.chain[2].response = <<>>
       /\ c.chain[2].window[1] < c.chain[2].window[2]
       /\ c.chain[2].value = c.cache
       /\ c.cache # <<>>

\* ---- C9 -------------------------------------------------------------------
\* the getter results of the fulfilled fetches of a chain, in fetch order
RECURSIVE ResultsInOrder(_)
ResultsInOrder(chain) ==
  IF chain = <<>> THEN <<>>
  ELSE LET p == Last(chain)
           before == ResultsInOrder(SubSeq(chain, 1, Len(chain) - 1))
       IN IF p.state = "fulfilled" /\ p.response # <<>>
          THEN before \o Reverse(p.response[1].items)
          ELSE before

\* C9: window computation.  In the step in which fetchNow runs, the first
\* fetch of an instance takes the window (now - lookupWindowDays, now) and
\* every later one (end of the fetch before it, now); after every step the
\* cache is the concatenation of the getter results in fetch order.
C9_Windows ==
  [][\A i \in DOMAIN heap :
       /\ \A k \in DOMAIN heap[i].chain :
            (~Executed(heap[i].chain[k]) /\ Executed(heap'[i].chain[k]))
            => heap'[i].chain[k].window =
                 IF k = 1
                 THEN <<clock - heap[i].initialTimeAgoDays * DayTicks, clock>>
                 ELSE <<heap[i].chain[k - 1].window[2], clock>>
       /\ heap'[i].cache = ResultsInOrder(heap'[i].chain)]_vars

\* the first fetch asked for one day up to now, the second for the time
\* since, and the cache holds both results in that order
C9_Witness ==
  \E i \in DOMAIN heap :
    LET c == heap[i]
    IN /\ Len(c.chain) >= 2
       /\ c.initialTimeAgoDays = 1
       /\ c.chain[1].state = "fulfilled" /\ c.chain[2].state = "fulfilled"
       /\ c.chain[1].response # <<>> /\ c.chain[2].response # <<>>
       /\ c.chain[1].window[1] = c.chain[1].window[2] - DayTicks
       /\ c.chain[2].window[1] = c.chain[1].window[2]
       /\ c.chain[2].window[2] > c.chain[2].window[1]
       /\ Len(c.chain[1].value) = 1
       /\ Len(c.chain[2].response[1].items) = 1
       /\ c.cache = c.chain[1].value \o c.chain[2].response[1].items

\* ---- C10 ------------------------------------------------------------------
StatReset == series'["temperature"] # series["temperature"]

LogReset == series'["logs"] # series["logs"]

Fresh(c) == c.cache = <<>> /\ c.lastEndTime = <<>> /\ c.chain = <<>>

\* C10: reset isolation.  A step that resets the stats leaves the four stat
\* series with caches that have no records and no boundary, and the logs
\* series with the same instance, whose records, boundary and chain are
\* unchanged; a step that resets the logs leaves the four stat series with
\* the same instances, unchanged, and the logs series with an empty cache.
C10_ResetIsolation ==
  [][/\ StatReset =>
          /\ \A s \in StatTypes :
               /\ series'[s] # series[s]
               /\ heap'[series'[s]].cache = <<>>
               /\ heap'[series'[s]].lastEndTime = <<>>
          /\ series'["logs"] = series["logs"]
          /\ heap'[series["logs"]] = heap[series["logs"]]
     /\ LogReset =>
          /\ Fresh(heap'[series'["logs"]])
          /\ \A s \in StatTypes :
               /\ series'[s] = series[s]
               /\ heap'[series[s]] = heap[series[s]]]_vars

\* the stats were reset after temperature had cached records, while the logs
\* series holds records and a fetch in flight
C10_Witness ==
  /\ series["temperature"] > 5
  /\ series["logs"] = 1
  /\ heap[2].cache # <<>>
  /\ Fresh(heap[series["temperature"]])
  /\ heap[1].chain # <<>>
  /\ heap[1].chain[1].state = "fetching"
\* ---- C11 ------------------------------------------------------------------
\* the instances the facade holds now
Current == {series[s] : s \in Series}

\* C11: reset with a fetch in flight.  A step of an instance the facade no
\* longer holds (the completion, with either outcome, of a fetch that was
\* outstanding at the reset) changes neither the records nor the boundary of
\* any instance the facade holds; and the first fetch of every instance is
\* chained on the resolved promise of its constructor, never behind a fetch
\* of the instance it replaced.
C11_ResetInFlight ==
  [][/\ \A i \in DOMAIN heap :
          (i \notin Current /\ heap'[i] # heap[i])
          => \A s \in Series :
               /\ series'[s] = series[s]
               /\ heap'[series[s]].cache = heap[series[s]].cache
               /\ heap'[series[s]].lastEndTime = heap[series[s]].lastEndTime
     /\ \A i \in DOMAIN heap' :
          (heap'[i].chain # <<>> /\ heap'[i].chain[1].state = "queued")
          => ~heap'[i].chain[1].behind]_vars

\* temperature was reset while its fetch was outstanding; the fetch issued
\* on the new cache has completed with records while the old one is still
\* outstanding
C11_Witness ==
  /\ series["temperature"] > 5
  /\ heap[2].chain # <<>>
  /\ heap[2].chain[1].state = "fetching"
  /\ heap[series["temperature"]].chain # <<>>
  /\ heap[series["temperature"]].chain[1].state = "fulfilled"
  /\ heap[series["temperature"]].cache # <<>>
  /\ heap[2].cache = <<>>
\* ---- C12 ------------------------------------------------------------------
\* C12: cross-instance independence.  In every reachable state, whatever the
\* other instances are waiting for, an instance whose next queued fetch has
\* no unsettled fetch of the same instance before it can run fetchNow, and
\* an instance with an outstanding getter call can have it completed.
C12_Independence ==
  \A i \in DOMAIN heap :
    LET c == heap[i]
        k == NextQueued(c)
    IN /\ (k # 0 /\ \A j \in 1..(k - 1) : c.chain[j].state = "fulfilled")
          => ENABLED FetchNow(i)
       /\ \A m \in Fetching(c) : ENABLED RespondMalformed(i, m)

\* humidity has fetched and cached records while the getter call of
\* temperature, and a second temperature fetch behind it, are still waiting
C12_Witness ==
  /\ series["temperature"] = 2
  /\ series["humidity"] = 3
  /\ Len(heap[2].chain) = 2
  /\ heap[2].chain[1].state = "fetching"
  /\ heap[2].chain[2].state = "queued"
  /\ heap[3].chain # <<>>
  /\ heap[3].chain[1].state = "fulfilled"
  /\ heap[3].cache # <<>>
\* ---- C13 ------------------------------------------------------------------
\* C13: stall.  In every step that starts and ends with the same getter call
\* of an instance outstanding, the instance's lastEndTime and cache do not
\* change and every fetch issued after that call is (still) queued: it has
\* not run fetchNow, called the getter or settled.  As nothing but the
\* completion of the call ends this, a call that never completes stalls the
\* later fetches for ever.
C13_Stall ==
  [][\A i \in DOMAIN heap : \A k \in Fetching(heap[i]) :
       heap'[i].chain[k].state = "fetching"
       => /\ heap'[i].lastEndTime = heap[i].lastEndTime
          /\ heap'[i].cache = heap[i].cache
          /\ \A j \in (k + 1)..Len(heap'[i].chain) :
               /\ heap'[i].chain[j].state = "queued"
               /\ ~Executed(heap'[i].chain[j])]_vars

\* a second or more has passed since the getter was called, and the fetches
\* issued meanwhile are all still queued
C13_Witness ==
  \E i \in DOMAIN heap :
    LET c == heap[i]
    IN /\ Len(c.chain) >= 3
       /\ c.chain[1].state = "fetching"
       /\ clock >= c.chain[1].window[2] + TicksPerSecond
       /\ \A j \in 2..Len(c.chain) : c.chain[j].state = "queued" /\ c.chain[j].behind
       /\ c.lastEndTime = <<c.chain[1].window[2]>>

\* ---- C14 ------------------------------------------------------------------
\* C14: boundary advanced before the result is known.  In every reachable
\* state in which a getter call with window (start, end) is outstanding on an
\* instance, the instance's lastEndTime is end.
C14_BoundaryBeforeResult ==
  \A i \in DOMAIN heap : \A k \in Fetching(heap[i]) :
    heap[i].lastEndTime = <<heap[i].chain[k].window[2]>>

\* the second fetch of an instance is outstanding and the boundary has
\* already moved from the first fetch's end to the second's
C14_Witness ==
  \E i \in DOMAIN heap :
    LET c == heap[i]
    IN /\ Len(c.chain) >= 2
       /\ c.chain[1].state = "fulfilled"
       /\ c.chain[2].state = "fetching"
       /\ c.chain[2].window[2] > c.chain[1].window[2]
       /\ c.lastEndTime = <<c.chain[2].window[2]>>
\* ---- C15 ------------------------------------------------------------------
\* C15: resolved value.  In every reachable state a fulfilled fetch holds as
\* its value the getter results of the fulfilled fetches up to and including
\* itself, in fetch order: the records of every earlier successful fetch
\* followed by its own, and for a no-op the records of the earlier ones.
C15_ResolvedValue ==
  \A i \in DOMAIN heap :
    LET c == heap[i]
    IN \A k \in DOMAIN c.chain :
         c.chain[k].state = "fulfilled"
         => c.chain[k].value = ResultsInOrder(SubSeq(c.chain, 1, k))

\* three fulfilled fetches: records, then a no-op that resolved with them,
\* then more records resolved after the earlier ones
C15_Witness ==
  \E i \in DOMAIN heap :
    LET c == heap[i]
    IN /\ Len(c.chain) >= 3
       /\ \A k \in 1..3 : c.chain[k].state = "fulfilled"
       /\ c.chain[1].response # <<>> /\ c.chain[1].value # <<>>
       /\ c.chain[2].response = <<>> /\ c.chain[2].value = c.chain[1].value
       /\ c.chain[3].response # <<>>
       /\ Len(c.chain[3].value) > Len(c.chain[1].value)
       /\ c.chain[3].value = c.cache
\* ---- C16 ------------------------------------------------------------------
\* C16: reversal.  Whenever a call of GreenhouseApi.history or
\* GreenhouseApi.logs is fulfilled, its value has the length of the items
\* received and its j-th element is the j-th from the end of the items
\* received, for items in any order.
C16_Reversal ==
  (direct # <<>> /\ direct[1].state = "fulfilled"
     /\ direct[1].op \in {"logs", "history"})
  => LET items == direct[1].body[1].items
         n == Len(items)
     IN /\ Len(direct[1].value) = n
        /\ \A j \in 1..n : direct[1].value[j] = items[n + 1 - j]

\* a history call answered with two different items, newest first, has
\* returned them oldest first
C16_Witness ==
  /\ direct # <<>>
  /\ direct[1].op = "history"
  /\ direct[1].state = "fulfilled"
  /\ direct[1].body[1].items = <<2, 1>>
  /\ direct[1].value = <<1, 2>>

\* ---- C17 ------------------------------------------------------------------
\* C17: the uncached delegates leave the caches alone.  A step in which
\* status() or latest(stat) is called, or in which such a call settles,
\* changes no cache instance (records, lastEndTime, chain) and none of the
\* facade's five cache fields; and a call that is pending can settle in every
\* reachable state, whatever fetch the caches have outstanding or queued.
C17_DelegatesFrame ==
  [][/\ direct' # direct => (heap' = heap /\ series' = series)
     /\ (direct # <<>> /\ direct[1].state = "pending")
        => ENABLED (\E err \in Errors : ApiFail(err))]_vars

\* status() was called after temperature's getter call, which is still
\* outstanding with a second fetch queued behind it, and has been answered
C17_Witness ==
  /\ direct # <<>>
  /\ direct[1].op = "status"
  /\ direct[1].state = "fulfilled"
  /\ direct[1].value # <<>>
  /\ Len(heap[series["temperature"]].chain) = 2
  /\ heap[series["temperature"]].chain[1].state = "fetching"
  /\ heap[series["temperature"]].chain[2].state = "queued"
  /\ heap[series["logs"]].chain # <<>>
\* ---- C18 ------------------------------------------------------------------
\* C18: poisoned chain.  From a state in which a fetch of an instance is
\* rejected, no step changes the instance's cache or lastEndTime, and after
\* the step every later fetch of the instance is either still queued or
\* rejected with the same error, and has not run fetchNow (so no getter
\* call).  The facade gets a working cache for the series only as the new
\* instance of a reset.
C18_PoisonedChain ==
  [][\A i \in DOMAIN heap : \A k \in DOMAIN heap[i].chain :
       heap[i].chain[k].state = "rejected"
       => /\ heap'[i].cache = heap[i].cache
          /\ heap'[i].lastEndTime = heap[i].lastEndTime
          /\ \A j \in (k + 1)..Len(heap'[i].chain) :
               LET q == heap'[i].chain[j]
               IN /\ q.state \in {"queued", "rejected"}
                  /\ ~Executed(q)
                  /\ q.response = <<>>
                  /\ q.state = "rejected" => q.error = heap[i].chain[k].error]_vars

\* the getter failed for temperature's first fetch; a fetch issued after
\* that rejection was rejected with the same error without running; the
\* stats were then reset and the facade holds a fresh temperature cache
C18_Witness ==
  /\ series["temperature"] > 5
  /\ Fresh(heap[series["temperature"]])
  /\ Len(heap[2].chain) = 2
  /\ heap[2].chain[1].state = "rejected"
  /\ heap[2].chain[1].response # <<>>
  /\ heap[2].chain[2].state = "rejected"
  /\ ~heap[2].chain[2].behind
  /\ ~Executed(heap[2].chain[2])
  /\ heap[2].chain[2].error = heap[2].chain[1].error
  /\ heap[2].chain[2].error \in Errors
\* ---- C19 ------------------------------------------------------------------
\* C19: progress.  When every getter call is eventually answered with
\* items, every fetch issued on the temperature cache is eventually
\* fulfilled, whatever number of fetches was issued before it.
C19_Progress ==
  \A k \in 1..MaxOps :
    (Len(heap[series["temperature"]].chain) >= k)
    ~> ( /\ Len(heap[series["temperature"]].chain) >= k
         /\ heap[series["temperature"]].chain[k].state = "fulfilled" )

\* the second and third fetch were queued behind an unsettled predecessor,
\* all three are fulfilled and the third one called the getter
C19_Witness ==
  LET c == heap[series["temperature"]]
  IN /\ Len(c.chain) >= 3
     /\ c.chain[2].behind /\ c.chain[3].behind
     /\ \A k \in 1..3 : c.chain[k].state = "fulfilled"
     /\ c.chain[3].response # <<>>
====
